---- MODULE Spec2Model ----
(***************************************************************************)
(* Model of the image-analysis service: the /analyze handler of            *)
(* server/ai/app/api/routes.py (response cache, concurrent extraction,     *)
(* join, store) and the signal fusion of server/ai/app/services/merge.py.  *)
(*                                                                         *)
(* A Python str is modelled as a sequence of one-character strings, a list *)
(* as a sequence, a dict with insertion order as a sequence of entries.    *)
(***************************************************************************)
EXTENDS Integers, Sequences, FiniteSets, TLC

(***************************************************************************)
(* Characters and the str methods the code uses                            *)
(***************************************************************************)
LowerSeq == <<"a", "b", "c", "d", "e", "f", "g", "h", "i", "j", "k", "l", "m", "n", "o", "p", "q", "r", "s", "t", "u", "v", "w", "x", "y", "z">>
UpperSeq == <<"A", "B", "C", "D", "E", "F", "G", "H", "I", "J", "K", "L", "M", "N", "O", "P", "Q", "R", "S", "T", "U", "V", "W", "X", "Y", "Z">>
DigitChars == {"0", "1", "2", "3", "4", "5", "6", "7", "8", "9"}
SpaceChars == {" ", "\t", "\n"}
VowelChars == {"a", "e", "i", "o", "u"}

UpperChars == {UpperSeq[i] : i \in 1..Len(UpperSeq)}
LowerChars == {LowerSeq[i] : i \in 1..Len(LowerSeq)}
ToLower == [c \in UpperChars |-> LowerSeq[CHOOSE i \in 1..Len(UpperSeq) : UpperSeq[i] = c]]
ToUpper == [c \in LowerChars |-> UpperSeq[CHOOSE i \in 1..Len(LowerSeq) : LowerSeq[i] = c]]

\* c.isupper(), c.islower(), c.isalpha() of one character
IsUpperCh(c) == c \in UpperChars
IsLowerCh(c) == c \in LowerChars
IsAlphaCh(c) == IsUpperCh(c) \/ IsLowerCh(c)
\* the class \s of re, and the characters str.strip() removes
IsSpaceCh(c) == c \in SpaceChars

LowerCh(c) == IF IsUpperCh(c) THEN ToLower[c] ELSE c
UpperCh(c) == IF IsLowerCh(c) THEN ToUpper[c] ELSE c

\* str.lower(), str.upper()
lower(s) == [i \in 1..Len(s) |-> LowerCh(s[i])]
upper(s) == [i \in 1..Len(s) |-> UpperCh(s[i])]
\* str.islower(): at least one cased character, and no uppercase one
islower(s) == (\E i \in 1..Len(s) : IsLowerCh(s[i])) /\ (\A i \in 1..Len(s) : ~IsUpperCh(s[i]))

SetMin(S) == CHOOSE x \in S : \A y \in S : x <= y
SetMax(S) == CHOOSE x \in S : \A y \in S : y <= x

\* str.strip(): leading and trailing whitespace removed
strip(s) ==
    LET keep == {i \in 1..Len(s) : ~IsSpaceCh(s[i])}
    IN  IF keep = {} THEN <<>> ELSE SubSeq(s, SetMin(keep), SetMax(keep))
\* str.strip('-')
strip_hyphen(s) ==
    LET keep == {i \in 1..Len(s) : s[i] # "-"}
    IN  IF keep = {} THEN <<>> ELSE SubSeq(s, SetMin(keep), SetMax(keep))

\* sub in s
contains(s, sub) == \E i \in 0..(Len(s) - Len(sub)) : SubSeq(s, i + 1, i + Len(sub)) = sub

\* s.count(sub) for a non-empty sub: non-overlapping occurrences, left to right
RECURSIVE count_from(_, _, _)
count_from(s, sub, i) ==
    IF i + Len(sub) - 1 > Len(s) THEN 0
    ELSE IF SubSeq(s, i, i + Len(sub) - 1) = sub
         THEN 1 + count_from(s, sub, i + Len(sub))
         ELSE count_from(s, sub, i + 1)
count(s, sub) == count_from(s, sub, 1)

\* s.split(sep) for a one-character sep: the tokens between separators, empty ones kept
RECURSIVE split_from(_, _, _, _)
split_from(s, sep, i, cur) ==
    IF i > Len(s) THEN <<cur>>
    ELSE IF s[i] = sep THEN <<cur>> \o split_from(s, sep, i + 1, <<>>)
         ELSE split_from(s, sep, i + 1, Append(cur, s[i]))
split(s, sep) == split_from(s, sep, 1, <<>>)

\* sep.join(parts)
RECURSIVE join(_, _)
join(parts, sep) ==
    IF Len(parts) = 0 THEN <<>>
    ELSE IF Len(parts) = 1 THEN parts[1]
         ELSE parts[1] \o sep \o join(Tail(parts), sep)

\* xs[:n]
Take(xs, n) == SubSeq(xs, 1, IF Len(xs) < n THEN Len(xs) ELSE n)
\* x in xs
InSeq(x, xs) == \E i \in 1..Len(xs) : xs[i] = x

(***************************************************************************)
(* String literals of merge.py                                             *)
(***************************************************************************)
S_image == <<"i", "m", "a", "g", "e">>
S_Image == <<"I", "m", "a", "g", "e">>
S_ImageOf == <<"I", "m", "a", "g", "e", " ", "o", "f", " ">>
S_CommaSp == <<",", " ">>
S_DotText == <<".", " ", "T", "e", "x", "t", ":", " ", "'">>
S_QuoteDot == <<"'", ".">>
cta_keywords == <<<<"s", "h", "o", "p">>, <<"b", "u", "y">>, <<"l", "e", "a", "r", "n">>, <<"c", "l", "i", "c", "k">>, <<"o", "r", "d", "e", "r">>, <<"g", "e", "t">>, <<"s", "i", "g", "n">>, <<"r", "e", "g", "i", "s", "t", "e", "r">>, <<"b", "o", "o", "k">>>>
short_words == {<<"o", "k">>, <<"g", "o">>, <<"w", "e">>, <<"u", "s">>, <<"n", "o">>, <<"s", "o">>, <<"o", "n">>, <<"o", "r">>, <<"a", "n">>, <<"a", "t">>, <<"b", "y">>, <<"t", "o">>, <<"u", "p">>, <<"i", "s">>, <<"i", "t">>, <<"b", "e">>, <<"d", "o">>, <<"i", "f">>, <<"i", "n">>, <<"m", "y">>, <<"h", "e">>, <<"a", "s">>, <<"o", "f">>, <<"a", "m">>}

(***************************************************************************)
(* MergeService._is_garbage_text                                           *)
(***************************************************************************)
\* (.)\1 under re.IGNORECASE: b repeats a; "." matches no newline
SameCh(a, b) == a # "\n" /\ LowerCh(a) = LowerCh(b)
\* re.search(r'(.)\1{n-1,}', s, re.IGNORECASE): some character n or more times in a row
has_run(s, n) ==
    \E i \in 1..(Len(s) - n + 1) : \A j \in 1..(n - 1) : SameCh(s[i], s[i + j])
\* match.lower() * 2 for the matches of re.findall(r'(.)\1+', s, re.IGNORECASE):
\* one per maximal run of two or more, its first character
doubled_matches(s) ==
    {<<LowerCh(s[i]), LowerCh(s[i])>> : i \in {k \in 1..(Len(s) - 1) : SameCh(s[k], s[k + 1])}}
\* rule 2: the loop over the matches returns True
repeated_rule(s) ==
    /\ has_run(s, 2)
    /\ \E d \in doubled_matches(s) : count(lower(s), d) > 1 \/ has_run(s, 3)
\* rule 3: case transitions between adjacent letters
transitions(s) ==
    Cardinality({i \in 2..Len(s) :
        /\ IsAlphaCh(s[i]) /\ IsAlphaCh(s[i - 1])
        /\ IsUpperCh(s[i]) # IsUpperCh(s[i - 1])})
\* rule 4: mixed case that is neither Capitalised nor ALL CAPS
mixed_case_rule(s) ==
    /\ Len(s) > 4
    /\ \E i \in 1..Len(s) : IsUpperCh(s[i])
    /\ \E i \in 1..Len(s) : IsLowerCh(s[i])
    /\ ~(IsUpperCh(s[1]) /\ islower(Tail(s)))
    /\ s # upper(s)
\* rule 5: vowel_ratio < 0.1 or vowel_ratio > 0.8, with more than 3 letters
vowel_rule(s) ==
    LET vowels == Cardinality({i \in 1..Len(s) : LowerCh(s[i]) \in VowelChars})
        letters == Cardinality({i \in 1..Len(s) : IsAlphaCh(s[i])})
    IN  letters > 3 /\ (10 * vowels < letters \/ 10 * vowels > 8 * letters)

_is_garbage_text(text) ==
    IF Len(text) < 2 THEN TRUE
    ELSE LET text_clean == strip(text)
         IN  IF contains(text_clean, <<" ">>) /\ Len(text_clean) > 10 THEN FALSE
             ELSE IF Len(text_clean) <= 2 /\ lower(text_clean) \notin short_words THEN TRUE
             ELSE IF repeated_rule(text_clean) THEN TRUE
             ELSE IF Len(text_clean) < 12 /\ transitions(text_clean) > 2 THEN TRUE
             ELSE IF mixed_case_rule(text_clean) THEN TRUE
             ELSE vowel_rule(text_clean)

(***************************************************************************)
(* MergeService._slugify, _extract_cta and the candidate generators        *)
(***************************************************************************)
\* re.sub(r'[^a-z0-9\s-]', '', text)
keep_slug_chars(s) == SelectSeq(s, LAMBDA c : IsLowerCh(c) \/ c \in DigitChars \/ IsSpaceCh(c) \/ c = "-")
\* re.sub(r'\s+', '-', text): every maximal whitespace run becomes one hyphen
RECURSIVE spaces_to_hyphen(_, _)
spaces_to_hyphen(s, i) ==
    IF i > Len(s) THEN <<>>
    ELSE IF ~IsSpaceCh(s[i]) THEN <<s[i]>> \o spaces_to_hyphen(s, i + 1)
         ELSE IF i > 1 /\ IsSpaceCh(s[i - 1]) THEN spaces_to_hyphen(s, i + 1)
              ELSE <<"-">> \o spaces_to_hyphen(s, i + 1)

_slugify(text) ==
    IF text = <<>> THEN S_image
    ELSE LET t == strip_hyphen(spaces_to_hyphen(keep_slug_chars(lower(text)), 1))
         IN  IF Len(t) > 50 THEN strip_hyphen(SubSeq(t, 1, 50)) ELSE t

\* validate(s) of _generate_filename_candidates; None is the empty sequence
\* (both are falsy where the result is tested)
validate(s) ==
    LET slug == _slugify(s)
        parts == split(slug, "-")
    IN  IF slug = <<>> THEN <<>> ELSE join(Take(parts, 2), <<"-">>)

\* if c and c not in candidates: candidates.append(c)
add_candidate(candidates, c) ==
    IF c # <<>> /\ ~InSeq(c, candidates) THEN Append(candidates, c) ELSE candidates

RECURSIVE add_lines(_, _, _)
\* for line in lines[i:]: if line not in candidates: candidates.append(line)
add_lines(candidates, lines, i) ==
    IF i > Len(lines) THEN candidates
    ELSE add_lines(add_candidate(candidates, lines[i]), lines, i + 1)

_generate_alt_candidates(caption, ocr_lines, tags) ==
    LET meaningful_lines == SelectSeq(ocr_lines, LAMBDA l : Len(l) > 2)
        a == add_lines(<<>>, Take(meaningful_lines, 5), 1)
        b == IF caption # <<>> THEN add_candidate(a, caption) ELSE a
        c == IF caption # <<>> /\ meaningful_lines # <<>>
             THEN add_candidate(b, caption \o S_DotText \o meaningful_lines[1] \o S_QuoteDot)
             ELSE b
    IN  IF c = <<>> /\ tags # <<>>
        THEN <<S_ImageOf \o join(Take(tags, 3), S_CommaSp)>>
        ELSE c

_generate_filename_candidates(tags, caption, ocr_lines) ==
    LET c1 == IF tags # <<>> THEN add_candidate(<<>>, validate(tags[1])) ELSE <<>>
        c2 == IF Len(tags) > 1 THEN add_candidate(c1, validate(tags[1] \o <<" ">> \o tags[2])) ELSE c1
        c3 == IF caption # <<>> THEN add_candidate(c2, validate(caption)) ELSE c2
        short == [i \in 1..Len(Take(ocr_lines, 2)) |->
                    IF 3 < Len(ocr_lines[i]) /\ Len(ocr_lines[i]) < 20
                    THEN validate(ocr_lines[i]) ELSE <<>>]
    IN  add_lines(c3, short, 1)

_extract_cta(ocr_lines) ==
    LET hit(line) ==
            LET text == lower(strip(line))
            IN  /\ 3 < Len(text) /\ Len(text) < 25
                /\ \E k \in 1..Len(cta_keywords) : contains(text, cta_keywords[k])
        hits == {i \in 1..Len(ocr_lines) : hit(ocr_lines[i])}
    IN  IF hits = {} THEN <<>> ELSE strip(ocr_lines[SetMin(hits)])

(***************************************************************************)
(* MergeService.merge_signals                                              *)
(***************************************************************************)
\* merge_signals without lines 35-39, the fallbacks
merge_signals_no_fallback(ocr_data, caption, tags) ==
    LET clean_caption == strip(caption)
        items == SelectSeq(ocr_data, LAMBDA item : "text" \in DOMAIN item)
        ocr_lines_raw == [i \in 1..Len(items) |-> items[i].text]
        ocr_lines == SelectSeq(ocr_lines_raw, LAMBDA line : ~_is_garbage_text(line))
    IN  [alt_text_candidates |-> _generate_alt_candidates(clean_caption, ocr_lines, tags),
         filename_candidates |-> _generate_filename_candidates(tags, clean_caption, ocr_lines),
         cta |-> _extract_cta(ocr_lines)]

merge_signals(ocr_data, caption, tags) ==
    LET clean_caption == strip(caption)
        items == SelectSeq(ocr_data, LAMBDA item : "text" \in DOMAIN item)
        ocr_lines_raw == [i \in 1..Len(items) |-> items[i].text]
        ocr_lines == SelectSeq(ocr_lines_raw, LAMBDA line : ~_is_garbage_text(line))
        cta_text == _extract_cta(ocr_lines)
        alt_candidates == _generate_alt_candidates(clean_caption, ocr_lines, tags)
        filename_candidates == _generate_filename_candidates(tags, clean_caption, ocr_lines)
    IN  [alt_text_candidates |-> IF alt_candidates = <<>> THEN <<S_Image>> ELSE alt_candidates,
         filename_candidates |-> IF filename_candidates = <<>> THEN <<S_image>> ELSE filename_candidates,
         cta |-> cta_text]

(***************************************************************************)
(* Images.  An upload is identified by a number; its bytes fix whether it  *)
(* decodes, its size, and what each model computes on it.                  *)
(*   0      bytes that are no image                                        *)
(*   1      a 1000x1 strip                                                 *)
(*   2..    ordinary pictures                                              *)
(***************************************************************************)
Decodable(c) == c # 0
SizeOf(c) == IF c = 1 THEN <<1000, 1>>
             ELSE IF c % 2 = 0 THEN <<1024, 768>> ELSE <<300, 200>>
\* what BLIP decodes for the picture
CaptionOf(c) == IF c % 3 = 0 THEN <<>>
                ELSE IF c % 3 = 1 THEN <<"S", "a", "l", "e", "!">>
                ELSE <<"a", " ", "d", "o", "g">>
\* CLIP's labels for the picture with their scores in percent, best first
ScoredTagsOf(c) == IF c % 2 = 0
                   THEN <<[tag |-> <<"s", "a", "l", "e">>, score |-> 60],
                          [tag |-> <<"f", "o", "o", "d">>, score |-> 30],
                          [tag |-> <<"d", "a", "r", "k">>, score |-> 10]>>
                   ELSE <<[tag |-> <<"s", "p", "o", "r", "t", "s">>, score |-> 9],
                          [tag |-> <<"d", "a", "r", "k">>, score |-> 8],
                          [tag |-> <<"f", "o", "o", "d">>, score |-> 7],
                          [tag |-> <<"s", "a", "l", "e">>, score |-> 6]>>
\* the lines PaddleOCR recognises on the picture: text, confidence in percent, box
RecognizedOf(c) == IF c % 2 = 0
                   THEN <<[text |-> <<"B", "u", "y", " ", "n", "o", "w">>, confidence |-> 97, box |-> <<0, 0, 90, 20>>],
                          [text |-> <<"S", "A", "L", "E">>, confidence |-> 88, box |-> <<0, 30, 60, 50>>]>>
                   ELSE <<>>

\* md5(content).hexdigest(): one digest per content
Md5(c) == <<"md5", c>>

(***************************************************************************)
(* routes.py: _decode_image, _resize_pil                                   *)
(***************************************************************************)
Max2(a, b) == IF a >= b THEN a ELSE b

\* the size of the image _resize_pil returns; int(h * max_dim / w) truncates
_resize_pil(size, max_dim) ==
    LET w == size[1]
        h == size[2]
    IN  IF Max2(w, h) <= max_dim THEN size
        ELSE IF w > h THEN <<max_dim, (h * max_dim) \div w>>
             ELSE <<(w * max_dim) \div h, max_dim>>

\* Image.resize raises ValueError for a size with a side below 1
ResizeRaises(size, max_dim) ==
    LET new == _resize_pil(size, max_dim)
    IN  new # size /\ (new[1] < 1 \/ new[2] < 1)

(***************************************************************************)
(* The extractor services and their wrappers in analyze_image              *)
(***************************************************************************)
\* the attributes of OCRService (ocr.py): analyze_image asks it for
\* process_image_from_cv
OCRServiceAttrs == {"get_instance", "_get_model", "_resize_if_needed",
                    "process_image", "process_image_detailed"}

\* run_ocr without its try/except: the AttributeError leaves the task
run_ocr_unguarded(c, mode, engine_ok) ==
    [raised |-> TRUE, escaped |-> TRUE, ocr_result |-> <<>>, ocr_text |-> <<>>]

\* run_ocr: the attribute lookup raises AttributeError inside the try, and the
\* except returns the defaults.  `engine_ok` is whether recognition itself
\* would succeed on the picture.
run_ocr(c, mode, engine_ok) ==
    IF "process_image_from_cv" \notin OCRServiceAttrs \/ ~engine_ok
    THEN [raised |-> TRUE, ocr_result |-> <<>>, ocr_text |-> <<>>]
    ELSE IF mode = "detailed"
         THEN LET result == RecognizedOf(c)
              IN  [raised |-> FALSE, ocr_result |-> result,
                   ocr_text |-> join([i \in 1..Len(result) |-> result[i].text], <<"\n">>)]
         ELSE LET text == join([i \in 1..Len(RecognizedOf(c)) |-> RecognizedOf(c)[i].text], <<"\n">>)
                  lines == SelectSeq(split(text, "\n"), LAMBDA line : line # <<>>)
              IN  [raised |-> FALSE, ocr_result |-> [i \in 1..Len(lines) |-> [text |-> lines[i]]],
                   ocr_text |-> text]

\* CaptionService.generate_caption_from_pil: any exception becomes ""
generate_caption_from_pil(c, engine_ok) == IF engine_ok THEN CaptionOf(c) ELSE <<>>
\* run_caption
run_caption(c, engine_ok) ==
    [raised |-> ~engine_ok, caption |-> generate_caption_from_pil(c, engine_ok)]

\* CLIPService.generate_tags_from_pil: the labels scoring above 0.1, or the best
\* three; any exception becomes []
generate_tags_from_pil(c, engine_ok) ==
    IF ~engine_ok THEN <<>>
    ELSE LET scored_tags == ScoredTagsOf(c)
             relevant == SelectSeq(scored_tags, LAMBDA st : st.score > 10)
             chosen == IF relevant = <<>> THEN Take(scored_tags, 3) ELSE relevant
         IN  [i \in 1..Len(chosen) |-> chosen[i].tag]
\* run_clip
run_clip(c, engine_ok) ==
    [raised |-> ~engine_ok, tags |-> generate_tags_from_pil(c, engine_ok)]

(***************************************************************************)
(* The response cache: a dict, kept in insertion order                     *)
(***************************************************************************)
_CACHE_MAX_SIZE == 100

Keys(d) == {d[i].key : i \in 1..Len(d)}
\* d[k]
DictGet(d, k) == d[CHOOSE i \in 1..Len(d) : d[i].key = k].value
\* an assignment that moves a present key to the end, as an LRU cache would
DictSet_move_to_end(d, k, v) ==
    Append(SelectSeq(d, LAMBDA e : e.key # k), [key |-> k, value |-> v])

\* d[k] = v: a present key keeps its place, a new one goes last
DictSet(d, k, v) ==
    IF k \in Keys(d)
    THEN [i \in 1..Len(d) |-> IF d[i].key = k THEN [key |-> k, value |-> v] ELSE d[i]]
    ELSE Append(d, [key |-> k, value |-> v])
\* del d[k]
DictDel(d, k) == SelectSeq(d, LAMBDA e : e.key # k)

\* the store with > for >=
cache_store_off_by_one(d, k, response) ==
    LET room == IF Len(d) > _CACHE_MAX_SIZE THEN SelectSeq(d, LAMBDA e : e.key # d[1].key) ELSE d
    IN  IF k \in {room[i].key : i \in 1..Len(room)}
        THEN [i \in 1..Len(room) |-> IF room[i].key = k THEN [key |-> k, value |-> response] ELSE room[i]]
        ELSE Append(room, [key |-> k, value |-> response])

\* lines 135-138: evict the oldest key if full, then store
cache_store(d, k, response) ==
    LET room == IF Len(d) >= _CACHE_MAX_SIZE THEN DictDel(d, d[1].key) ELSE d
    IN  DictSet(room, k, response)

\* a hit that returns the stored dict as it is
mark_cached_forgotten(response) == response

\* line 69, on a hit: cached["cached"] = True
mark_cached(response) == [response EXCEPT !.cached = TRUE]

\* lines 118-132
build_response(result, ocr_text, caption, tags) ==
    [filename |-> result.filename_candidates[1],
     alt_text |-> result.alt_text_candidates[1],
     candidates |-> [filenames |-> result.filename_candidates,
                     alt_texts |-> result.alt_text_candidates],
     cta |-> result.cta,
     raw |-> [ocr |-> ocr_text, caption |-> caption, tags |-> tags],
     cached |-> FALSE]

(***************************************************************************)
(* State                                                                   *)
(***************************************************************************)
VARIABLES
    cache,      \* _response_cache: entries [key, value] in insertion order
    pc,         \* per request: where analyze_image stands
    req,        \* per request: the upload, the mode and the three tasks, while it runs or after its answer
    out,        \* per request: what the caller received
    stored,     \* history: per cached key, the response its storing request returned, and when
    clock,      \* history: number of stores so far
    evicted,    \* history: the entries evicted so far, oldest first (the last few)
    hit_first,  \* history: per request that hit, the response returned when the entry was stored
    submitted,  \* history: number of requests so far
    fusion,     \* a fusion call on its own: input and result
    resized,    \* the two resizes of a decoded image on their own: size and results
    invoked     \* history: per request, how often run_ocr, run_caption and run_clip ran

vars == <<cache, pc, req, out, stored, clock, evicted, hit_first, submitted, fusion, resized, invoked>>

\* two requests at a time
Reqs == {1, 2}
Modes == {"fast", "detailed"}

NoTask == [state |-> "none"]
PendingTask == [state |-> "pending"]
NoOut == [status |-> "none"]
NoReq == [content |-> 0, mode |-> "fast", ocr |-> NoTask, caption |-> NoTask, clip |-> NoTask]
NoFusion == [phase |-> "none"]
NoResize == [phase |-> "none"]
NoCalls == [ocr |-> 0, caption |-> 0, clip |-> 0]

InFlight(r) == pc[r] \in {"read", "decode", "extract", "merge"}

InitRequests ==
    /\ cache = <<>>
    /\ pc = [r \in Reqs |-> "idle"]
    /\ req = [r \in Reqs |-> NoReq]
    /\ out = [r \in Reqs |-> NoOut]
    /\ stored = <<>>
    /\ clock = 0
    /\ evicted = <<>>
    /\ hit_first = [r \in Reqs |-> NoOut]
    /\ submitted = 0
    /\ invoked = [r \in Reqs |-> NoCalls]

Init == InitRequests /\ fusion = NoFusion /\ resized = NoResize

(***************************************************************************)
(* analyze_image, one action per stretch between two awaits                *)
(***************************************************************************)
\* a request arrives; the handler awaits file.read() (line 63)
Submit(r, c, m) ==
    /\ ~InFlight(r)
    /\ submitted' = submitted + 1
    /\ pc' = [pc EXCEPT ![r] = "read"]
    /\ req' = [req EXCEPT ![r] = [NoReq EXCEPT !.content = c, !.mode = m]]
    /\ out' = [out EXCEPT ![r] = NoOut]
    /\ hit_first' = [hit_first EXCEPT ![r] = NoOut]
    /\ invoked' = [invoked EXCEPT ![r] = NoCalls]
    /\ UNCHANGED <<cache, stored, clock, evicted, fusion, resized>>

\* lines 65-73: hash, cache check; a hit marks the stored dict and returns it,
\* a miss goes on to await the decode
Lookup(r) ==
    /\ pc[r] = "read"
    /\ LET content_hash == Md5(req[r].content)
       IN  IF content_hash \in Keys(cache)
           THEN LET cached == mark_cached(DictGet(cache, content_hash))
                IN  /\ cache' = DictSet(cache, content_hash, cached)
                    /\ out' = [out EXCEPT ![r] = [status |-> "ok", body |-> cached]]
                    /\ hit_first' = [hit_first EXCEPT ![r] = stored[CHOOSE i \in 1..Len(stored) : stored[i].key = content_hash].response]
                    /\ pc' = [pc EXCEPT ![r] = "done"]
           ELSE /\ pc' = [pc EXCEPT ![r] = "decode"]
                /\ UNCHANGED <<cache, out, hit_first>>
    /\ UNCHANGED <<req, stored, clock, evicted, submitted, fusion, resized, invoked>>

\* lines 73-112: the decode returns or raises; the two resizes; gather starts
\* the three tasks
Decoded(r) ==
    /\ pc[r] = "decode"
    /\ LET c == req[r].content
       IN  IF ~Decodable(c)
           THEN /\ pc' = [pc EXCEPT ![r] = "failed"]
                /\ out' = [out EXCEPT ![r] = [status |-> "error", stage |-> "decode"]]
                /\ req' = [req EXCEPT ![r] = NoReq]
           ELSE IF ResizeRaises(SizeOf(c), 512) \/ ResizeRaises(SizeOf(c), 224)
           THEN /\ pc' = [pc EXCEPT ![r] = "failed"]
                /\ out' = [out EXCEPT ![r] = [status |-> "error", stage |-> "resize"]]
                /\ req' = [req EXCEPT ![r] = NoReq]
           ELSE /\ pc' = [pc EXCEPT ![r] = "extract"]
                /\ req' = [req EXCEPT ![r].ocr = PendingTask, ![r].caption = PendingTask, ![r].clip = PendingTask]
                /\ UNCHANGED out
    /\ UNCHANGED <<cache, stored, clock, evicted, hit_first, submitted, fusion, resized, invoked>>

\* the three tasks of gather finish in any order; `engine_ok` is whether the
\* model behind the extractor works on the picture this time
OcrDone(r, engine_ok) ==
    /\ pc[r] = "extract" /\ req[r].ocr.state = "pending"
    /\ req' = [req EXCEPT ![r].ocr = [state |-> "done", engine_ok |-> engine_ok,
                                       result |-> run_ocr(req[r].content, req[r].mode, engine_ok)]]
    /\ invoked' = [invoked EXCEPT ![r].ocr = @ + 1]
    /\ UNCHANGED <<cache, pc, out, stored, clock, evicted, hit_first, submitted, fusion, resized>>

\* a caption task that is run again when the model raised
CaptionDone_retry(r, engine_ok) ==
    /\ pc[r] = "extract"
    /\ \/ req[r].caption.state = "pending"
       \/ req[r].caption.state = "done" /\ req[r].caption.result.raised
    /\ req' = [req EXCEPT ![r].caption = [state |-> "done", result |-> run_caption(req[r].content, engine_ok)]]
    /\ invoked' = [invoked EXCEPT ![r].caption = @ + 1]
    /\ UNCHANGED <<cache, pc, out, stored, clock, evicted, hit_first, submitted, fusion, resized>>

CaptionDone(r, engine_ok) ==
    /\ pc[r] = "extract" /\ req[r].caption.state = "pending"
    /\ req' = [req EXCEPT ![r].caption = [state |-> "done", result |-> run_caption(req[r].content, engine_ok)]]
    /\ invoked' = [invoked EXCEPT ![r].caption = @ + 1]
    /\ UNCHANGED <<cache, pc, out, stored, clock, evicted, hit_first, submitted, fusion, resized>>

ClipDone(r, engine_ok) ==
    /\ pc[r] = "extract" /\ req[r].clip.state = "pending"
    /\ req' = [req EXCEPT ![r].clip = [state |-> "done", result |-> run_clip(req[r].content, engine_ok)]]
    /\ invoked' = [invoked EXCEPT ![r].clip = @ + 1]
    /\ UNCHANGED <<cache, pc, out, stored, clock, evicted, hit_first, submitted, fusion, resized>>

Tasks(r) == {req[r].ocr, req[r].caption, req[r].clip}
\* an exception that left a task's coroutine
Escaped(task) == task.state = "done" /\ "escaped" \in DOMAIN task.result

\* a join that goes on as soon as one task has returned
Join_first_completed(r) ==
    /\ pc[r] = "extract"
    /\ \E t \in Tasks(r) : t.state = "done"
    /\ pc' = [pc EXCEPT ![r] = "merge"]
    /\ UNCHANGED <<cache, req, out, stored, clock, evicted, hit_first, submitted, fusion, resized, invoked>>

\* lines 108-116: gather returns when all three have returned, or raises the
\* first exception a task let out; then the handler awaits merge_signals
Join(r) ==
    /\ pc[r] = "extract"
    /\ \/ \A t \in Tasks(r) : t.state = "done"
       \/ \E t \in Tasks(r) : Escaped(t)
    /\ IF \E t \in Tasks(r) : Escaped(t)
       THEN /\ pc' = [pc EXCEPT ![r] = "failed"]
            /\ out' = [out EXCEPT ![r] = [status |-> "error", stage |-> "extract"]]
            /\ req' = [req EXCEPT ![r] = NoReq]
            /\ invoked' = [invoked EXCEPT ![r] = NoCalls]
       ELSE /\ pc' = [pc EXCEPT ![r] = "merge"]
            /\ UNCHANGED <<out, req, invoked>>
    /\ UNCHANGED <<cache, stored, clock, evicted, hit_first, submitted, fusion, resized>>

\* history: the entries of `before` whose key is not among `kept`
Gone(before, kept) == SelectSeq(before, LAMBDA e : e.key \notin kept)
\* history: the store records of the keys still cached, and the new one last
Restored(records, kept, new) == Append(SelectSeq(records, LAMBDA e : e.key \in kept /\ e.key # new.key), new)

\* lines 134-140: `after` is the cache with the response stored; the caller
\* gets the response
StoreAndReturn(r, content_hash, response, after) ==
    /\ cache' = after
    /\ out' = [out EXCEPT ![r] = [status |-> "ok", body |-> response]]
    /\ stored' = Restored(stored, Keys(after), [key |-> content_hash, response |-> response, at |-> clock + 1])
    /\ clock' = clock + 1
    /\ evicted' = evicted \o Gone(cache, Keys(after))

\* lines 115-140: merge_signals returns; build the response, store it, return it
Respond(r) ==
    /\ pc[r] = "merge"
    /\ LET content_hash == Md5(req[r].content)
           ocr == req[r].ocr.result
           caption == req[r].caption.result.caption
           tags == req[r].clip.result.tags
           result == merge_signals(ocr.ocr_result, caption, tags)
           response == build_response(result, ocr.ocr_text, caption, tags)
       IN  StoreAndReturn(r, content_hash, response, cache_store(cache, content_hash, response))
    /\ pc' = [pc EXCEPT ![r] = "done"]
    /\ UNCHANGED <<req, hit_first, submitted, fusion, resized, invoked>>

\* the request is cancelled at one of its awaits (lines 63, 73, 108, 116)
Cancel(r) ==
    /\ InFlight(r)
    /\ pc' = [pc EXCEPT ![r] = "cancelled"]
    /\ req' = [req EXCEPT ![r] = NoReq]
    /\ out' = [out EXCEPT ![r] = [status |-> "cancelled", stage |-> pc[r]]]
    /\ invoked' = [invoked EXCEPT ![r] = NoCalls]
    /\ UNCHANGED <<cache, stored, clock, evicted, hit_first, submitted, fusion, resized>>

(***************************************************************************)
(* Spec: concurrent requests for a few uploads, every extractor outcome    *)
(***************************************************************************)
\* uploads 0..MaxUpload, MaxSubmits requests
MaxUpload == 2
MaxSubmits == 3

Next ==
    \E r \in Reqs :
        \/ \E c \in 0..MaxUpload, m \in Modes : submitted < MaxSubmits /\ Submit(r, c, m)
        \/ Lookup(r)
        \/ Decoded(r)
        \/ \E ok \in BOOLEAN : OcrDone(r, ok)
        \/ \E ok \in BOOLEAN : CaptionDone(r, ok)
        \/ \E ok \in BOOLEAN : ClipDone(r, ok)
        \/ Join(r)
        \/ Respond(r)
        \/ Cancel(r)

Spec == Init /\ [][Next]_vars

(***************************************************************************)
(* SpecSeq, SpecConc: the cache at capacity.  The first _CACHE_MAX_SIZE    *)
(* requests bring one new picture each, one after another; after them a    *)
(* request brings a new picture, the oldest cached one, an evicted one or  *)
(* one another request is working on.                                      *)
(***************************************************************************)
ImageOf(key) == key[2]
\* a picture no request has brought yet: every stored one is below 2 + clock
NextFresh ==
    LET seen == SetMax({req[q].content : q \in Reqs})
    IN  IF seen >= 2 + clock THEN seen + 1 ELSE 2 + clock
Choices ==
    {NextFresh} \cup {ImageOf(cache[i].key) : i \in {j \in 1..Len(cache) : j = 1}}
                \cup {ImageOf(k) : k \in Keys(evicted)}
                \cup {req[q].content : q \in {x \in Reqs : InFlight(x)}}
WarmingUp == clock < _CACHE_MAX_SIZE
Quiet == \A q \in Reqs : ~InFlight(q)

\* requests after the first _CACHE_MAX_SIZE
SeqSubmits == 3
ConcSubmits == 2

\* requests that do not overlap
NextSeq ==
    \E r \in Reqs :
        \/ WarmingUp /\ Quiet /\ r = SetMin(Reqs) /\ Submit(r, NextFresh, "fast")
        \/ /\ ~WarmingUp /\ Quiet /\ submitted < _CACHE_MAX_SIZE + SeqSubmits
           /\ \E c \in Choices, m \in Modes : Submit(r, c, m)
        \/ Lookup(r)
        \/ Decoded(r)
        \/ OcrDone(r, TRUE)
        \/ CaptionDone(r, TRUE)
        \/ ClipDone(r, TRUE)
        \/ Join(r)
        \/ Respond(r)
        \/ ~WarmingUp /\ Cancel(r)

SpecSeq == Init /\ [][NextSeq]_vars

\* requests that overlap
NextConc ==
    \E r \in Reqs :
        \/ WarmingUp /\ Quiet /\ r = SetMin(Reqs) /\ Submit(r, NextFresh, "fast")
        \/ /\ ~WarmingUp /\ submitted < _CACHE_MAX_SIZE + ConcSubmits
           /\ \E c \in Choices, m \in Modes : Submit(r, c, m)
        \/ Lookup(r)
        \/ Decoded(r)
        \/ OcrDone(r, TRUE)
        \/ CaptionDone(r, TRUE)
        \/ ClipDone(r, TRUE)
        \/ Join(r)
        \/ Respond(r)
        \/ ~WarmingUp /\ Cancel(r)

SpecConc == Init /\ [][NextConc]_vars

(***************************************************************************)
(* SpecMerge: merge_signals and _is_garbage_text on their own, over every  *)
(* string of at most MaxLen characters of Sigma and the literal examples   *)
(***************************************************************************)
MaxLen == 3
Sigma == {"a", "b", "E", "1", " ", "-", "!"}
Strings == UNION {[1..k -> Sigma] : k \in 0..MaxLen}

ShopNow == <<"S", "h", "o", "p", " ", "N", "o", "w">>
RPEEREPe == <<"R", "P", "E", "E", "R", "E", "P", "e">>
TeEEEeD == <<"T", "e", "E", "E", "E", "e", "D">>
S_nu == <<"n", "u">>
HelloWorld == <<"H", "e", "l", "l", "o", " ", "W", "o", "r", "l", "d">>
S_OK == <<"O", "K">>
BuyNow == <<"B", "u", "y", " ", "n", "o", "w">>
WomanHoldingBag == <<"W", "o", "m", "a", "n", " ", "H", "o", "l", "d", "i", "n", "g", " ", "B", "a", "g", "!", "!">>
S_woman_holding == <<"w", "o", "m", "a", "n", "-", "h", "o", "l", "d", "i", "n", "g">>
ADog == <<"a", " ", "d", "o", "g">>
\* 49 letters, a space, 10 letters: longer than the 50 of _slugify
LongCaption == [i \in 1..60 |-> IF i = 50 THEN " " ELSE IF i < 50 THEN "a" ELSE "b"]
\* 60 letters in one word
LongWord == [i \in 1..60 |-> "a"]

Literals == {ShopNow, RPEEREPe, TeEEEeD, S_nu, HelloWorld, S_OK, BuyNow, WomanHoldingBag, LongCaption, LongWord}
SomeLines == <<[text |-> BuyNow]>>
SomeTags == <<<<"s", "a", "l", "e">>, <<"b">>>>

FusionInputs ==
    \* one recognised line varies, alone or before another line
    {[ocr_data |-> <<[text |-> s]>> \o rest[1], caption |-> rest[2], tags |-> rest[3]] :
        s \in Strings \cup Literals,
        rest \in {<<<<>>, <<>>, <<>>>>, <<SomeLines, ADog, SomeTags>>, <<<<>>, <<>>, SomeTags>>}}
    \cup
    \* the caption varies
    {[ocr_data |-> rest[1], caption |-> s, tags |-> rest[2]] :
        s \in Strings \cup Literals,
        rest \in {<<<<>>, <<>>>>, <<SomeLines, SomeTags>>, <<<<>>, SomeTags>>}}
    \cup
    \* the first tag varies, alone or before other tags
    {[ocr_data |-> rest[1], caption |-> rest[2], tags |-> <<s>> \o rest[3]] :
        s \in Strings,
        rest \in {<<<<>>, <<>>, <<>>>>, <<SomeLines, ADog, SomeTags>>, <<<<>>, <<>>, SomeTags>>}}
    \cup
    {[ocr_data |-> <<>>, caption |-> <<>>, tags |-> <<>>]}

InitMerge ==
    /\ InitRequests
    /\ resized = NoResize
    /\ \E input \in FusionInputs :
          fusion = [phase |-> "input", ocr_data |-> input.ocr_data,
                    caption |-> input.caption, tags |-> input.tags]

\* one call of merge_signals; `noise` is _is_garbage_text of each line given
Fuse ==
    /\ fusion.phase = "input"
    /\ fusion' = [phase |-> "done", ocr_data |-> fusion.ocr_data,
                  caption |-> fusion.caption, tags |-> fusion.tags,
                  noise |-> [i \in 1..Len(fusion.ocr_data) |-> _is_garbage_text(fusion.ocr_data[i].text)],
                  result |-> merge_signals(fusion.ocr_data, fusion.caption, fusion.tags)]
    /\ UNCHANGED <<cache, pc, req, out, stored, clock, evicted, hit_first, submitted, resized, invoked>>

NextMerge == Fuse

SpecMerge == InitMerge /\ [][NextMerge]_vars

(***************************************************************************)
(* SpecResize: lines 76-77 on their own, for a decoded image of every size *)
(* with sides in Sides                                                     *)
(***************************************************************************)
MaxSide == 8
\* small sides, and sides around the two limits and above them
Sides == (1..MaxSide) \cup {223, 224, 225, 511, 512, 513, 1000, 1024}

\* one call of _resize_pil: the size asked for, and whether Image.resize raises
resize_outcome(size, max_dim) ==
    [size |-> _resize_pil(size, max_dim), raised |-> ResizeRaises(size, max_dim)]

InitResize ==
    /\ InitRequests
    /\ fusion = NoFusion
    /\ \E w \in Sides, h \in Sides : resized = [phase |-> "decoded", size |-> <<w, h>>]

\* pil_for_blip = _resize_pil(pil_image, 512); pil_for_clip = _resize_pil(pil_image, 224)
ResizeBoth ==
    /\ resized.phase = "decoded"
    /\ resized' = [phase |-> "resized", size |-> resized.size,
                   pil_for_blip |-> resize_outcome(resized.size, 512),
                   pil_for_clip |-> resize_outcome(resized.size, 224)]
    /\ UNCHANGED <<cache, pc, req, out, stored, clock, evicted, hit_first, submitted, fusion, invoked>>

NextResize == ResizeBoth

SpecResize == InitResize /\ [][NextResize]_vars

(***************************************************************************)
(* Properties                                                              *)
(***************************************************************************)
Miss(r) == pc[r] = "done" /\ hit_first[r] = NoOut
Hit(r) == pc[r] = "done" /\ hit_first[r] # NoOut
TextsOf(items) == [i \in 1..Len(items) |-> items[i].text]

C2_NonEmptyFusion ==
    fusion.phase = "done" =>
        /\ fusion.result.alt_text_candidates # <<>>
        /\ fusion.result.filename_candidates # <<>>
        /\ (fusion.ocr_data = <<>> /\ fusion.caption = <<>> /\ fusion.tags = <<>>) =>
              /\ fusion.result.alt_text_candidates = <<S_Image>>
              /\ fusion.result.filename_candidates = <<S_image>>

\* the fusion of no lines, no caption and no tags has returned the fallbacks
C2_Witness ==
    /\ fusion.phase = "done"
    /\ fusion.ocr_data = <<>> /\ fusion.caption = <<>> /\ fusion.tags = <<>>
    /\ fusion.result.alt_text_candidates = <<S_Image>>
    /\ fusion.result.filename_candidates = <<S_image>>

\* the key stored first among those cached, by the history of stores
Oldest == stored[CHOOSE i \in 1..Len(stored) : \A j \in 1..Len(stored) : stored[i].at <= stored[j].at].key

\* C3: with requests one after another, a store into a full cache removes
\* exactly one entry, the one stored earliest of those present, whether or not
\* it was hit since; a store into a cache that is not full removes nothing;
\* a lookup of an evicted key misses.
C3_StrictFifo ==
    [][/\ (clock' # clock /\ Len(cache) >= _CACHE_MAX_SIZE) =>
              /\ Keys(cache) \ Keys(cache') = {Oldest}
              /\ Len(cache') = _CACHE_MAX_SIZE
       /\ (clock' # clock /\ Len(cache) < _CACHE_MAX_SIZE) => Keys(cache) \subseteq Keys(cache')
       /\ clock' = clock => Keys(cache') = Keys(cache)
       /\ \A r \in Reqs :
              (pc[r] = "read" /\ pc'[r] = "done") => Md5(req[r].content) \in Keys(cache)
      ]_vars

\* the entry stored first was hit, then evicted by the store after
\* _CACHE_MAX_SIZE others, and a later request for it missed
C3_Witness ==
    /\ clock = _CACHE_MAX_SIZE + 1
    /\ Len(evicted) = 1
    /\ evicted[1].value.cached = TRUE
    /\ evicted[1].key = Md5(2)
    /\ Len(cache) = _CACHE_MAX_SIZE
    /\ \E r \in Reqs : pc[r] = "decode" /\ Md5(req[r].content) = evicted[1].key

\* C4: a hit returns exactly the response returned when the entry was stored,
\* with cached true in place of false, and nothing else changed; a miss
\* returns cached false.
C4_HitIdempotent ==
    \A r \in Reqs :
        /\ Hit(r) =>
              /\ hit_first[r].cached = FALSE
              /\ out[r].body.cached = TRUE
              /\ out[r].body = [hit_first[r] EXCEPT !.cached = TRUE]
        /\ Miss(r) => out[r].body.cached = FALSE

\* a miss and a hit for the same upload, the miss with an extractor down
C4_Witness ==
    \E r, q \in Reqs :
        /\ Miss(r) /\ Hit(q)
        /\ req[r].content = req[q].content
        /\ req[r].caption.result.raised
        /\ out[q].body.cached = TRUE
        /\ out[q].body.raw = out[r].body.raw

\* C5: the classifier says noise for "RPEEREPe", "TeEEEeD" and "nu", and not
\* noise for "Hello World", "OK" and "Buy now"; a short line with a CTA
\* keyword that is not noise, such as "Shop Now", is returned as cta.
C5_Classifier ==
    (fusion.phase = "done" /\ Len(fusion.ocr_data) = 1) =>
        LET line == fusion.ocr_data[1].text
        IN  /\ line \in {RPEEREPe, TeEEEeD, S_nu} => fusion.noise[1]
            /\ line \in {HelloWorld, S_OK, BuyNow} => ~fusion.noise[1]
            /\ line \in {ShopNow, BuyNow} => ~fusion.noise[1] /\ fusion.result.cta = line

SlugChars == LowerChars \cup DigitChars \cup {"-"}
WellFormedName(f) ==
    /\ f # <<>>
    /\ Len(f) <= 50
    /\ \A i \in 1..Len(f) : f[i] \in SlugChars
    /\ Len(split(f, "-")) \in {1, 2}
    /\ \A i \in 1..Len(split(f, "-")) : split(f, "-")[i] # <<>>

\* C6: every filename candidate is non-empty, at most 50 characters of
\* lowercase letters, digits and hyphens, and is one or two non-empty tokens
\* joined by one hyphen; no candidate occurs twice; the caption
\* "Woman Holding Bag!!" gives "woman-holding".
C6_FilenameFormat ==
    fusion.phase = "done" =>
        LET names == fusion.result.filename_candidates
        IN  /\ \A i \in 1..Len(names) : WellFormedName(names[i])
            /\ \A i, j \in 1..Len(names) : names[i] = names[j] => i = j
            /\ fusion.caption = WomanHoldingBag => InSeq(S_woman_holding, names)

\* one request's step: its position or its tasks change
StepOf(r) == pc'[r] # pc[r] \/ req'[r] # req[r]
AllReturned(r) == \A t \in Tasks(r) : t.state = "done"

\* C7: the response is built and the cache written only after all three
\* extractor tasks have returned: no step of a missing request up to the join
\* changes the cache, the join is passed only with all three returned, and a
\* request that ends cancelled or failed leaves the cache as it was.
C7_JoinBeforeWrite ==
    [][\A r \in Reqs :
          StepOf(r) =>
              /\ pc[r] \in {"decode", "extract"} => cache' = cache /\ out'[r].status # "ok"
              /\ pc'[r] \in {"cancelled", "failed"} => cache' = cache
              /\ pc'[r] = "merge" => AllReturned(r)
              /\ (pc[r] = "merge" /\ pc'[r] = "done") => AllReturned(r)
      ]_vars

\* one request was cancelled while its extractors ran, next to a cache
\* another request filled
C7_Witness ==
    \E r, q \in Reqs :
        /\ pc[r] = "cancelled" /\ out[r].stage = "extract"
        /\ Miss(q)
        /\ Keys(cache) = {Md5(req[q].content)}
        /\ cache[1].value = out[q].body

\* C8: when the recogniser works on the upload and reads lines L1..Ln, raw.ocr
\* of the miss response is the lines joined by newlines and the fusion gets
\* one item per line, with confidence and box in detailed mode.
C8_OcrReachesBundle ==
    \A r \in Reqs :
        (Miss(r) /\ req[r].ocr.engine_ok) =>
            LET lines == RecognizedOf(req[r].content)
                items == req[r].ocr.result.ocr_result
            IN  /\ out[r].body.raw.ocr = join(TextsOf(lines), <<"\n">>)
                /\ TextsOf(items) = TextsOf(lines)
                /\ req[r].mode = "detailed" => items = lines

\* C9: with overlapping requests too, the number of entries never goes down,
\* and an entry leaves only in a store of a key that is not cached into a
\* full cache.
C9_EvictOnlyOnOverflow ==
    [][/\ Len(cache') >= Len(cache)
       /\ Keys(cache) \ Keys(cache') # {} =>
              /\ Len(cache) >= _CACHE_MAX_SIZE
              /\ stored'[Len(stored')].key \notin Keys(cache)
      ]_vars

\* C10: the cache never holds more than _CACHE_MAX_SIZE entries, and one
\* entry per fingerprint.
C10_Bounded ==
    /\ Len(cache) <= _CACHE_MAX_SIZE
    /\ Cardinality(Keys(cache)) = Len(cache)

\* the cache is full and two requests that both missed are about to store
C10_Witness ==
    /\ Len(cache) = _CACHE_MAX_SIZE
    /\ \A r \in Reqs : pc[r] = "merge"
    /\ \E r, q \in Reqs : r # q /\ req[r].content # req[q].content

\* the repeated-run rule read on letters only: a doubled letter that occurs
\* more than once in the line, or a letter three or more times in a row
letter_run(s, n) ==
    \E i \in 1..(Len(s) - n + 1) : IsAlphaCh(s[i]) /\ \A j \in 1..(n - 1) : SameCh(s[i], s[i + j])
letter_repeated_rule(s) ==
    \/ letter_run(s, 3)
    \/ \E i \in 1..(Len(s) - 1) :
          /\ IsAlphaCh(s[i]) /\ SameCh(s[i], s[i + 1])
          /\ count(lower(s), <<LowerCh(s[i]), LowerCh(s[i])>>) > 1
\* the rules of the classifier other than the repeated-run rule say noise
other_rule(text) ==
    \/ Len(text) < 2
    \/ /\ ~(contains(strip(text), <<" ">>) /\ Len(strip(text)) > 10)
       /\ \/ Len(strip(text)) <= 2 /\ lower(strip(text)) \notin short_words
          \/ Len(strip(text)) < 12 /\ transitions(strip(text)) > 2
          \/ mixed_case_rule(strip(text))
          \/ vowel_rule(strip(text))

\* C11: the repeated-run rule looks at letters only: a line is noise only if
\* another rule says so or a doubled letter occurs more than once or a letter
\* is repeated three or more times in a row; a line whose only repeated runs
\* are of digits or punctuation, and that no other rule catches, is genuine.
C11_LettersOnly ==
    fusion.phase = "done" =>
        \A i \in 1..Len(fusion.ocr_data) :
            fusion.noise[i] =>
                \/ other_rule(fusion.ocr_data[i].text)
                \/ letter_repeated_rule(strip(fusion.ocr_data[i].text))

Min2(a, b) == IF a <= b THEN a ELSE b
\* a resize of `size` under the limit B that is valid
ValidResize(size, B, outcome) ==
    /\ ~outcome.raised
    /\ 1 <= outcome.size[1] /\ outcome.size[1] <= size[1]
    /\ 1 <= outcome.size[2] /\ outcome.size[2] <= size[2]
    /\ Max2(outcome.size[1], outcome.size[2]) = Min2(Max2(size[1], size[2]), B)
    /\ Max2(size[1], size[2]) <= B => outcome.size = size

\* C12: for every decoded image w x h with w, h >= 1 and each limit B of 512
\* and 224, _resize_pil gives w' x h' with 1 <= w' <= w, 1 <= h' <= h and
\* max(w', h') = min(max(w, h), B), the size itself when max(w, h) <= B, and
\* the resize does not raise.
C12_ResizeValid ==
    resized.phase = "resized" =>
        /\ ValidResize(resized.size, 512, resized.pil_for_blip)
        /\ ValidResize(resized.size, 224, resized.pil_for_clip)

OnceEach == [ocr |-> 1, caption |-> 1, clip |-> 1]

\* C13: a request whose fusion completes stores its response under its
\* fingerprint, also when extractors failed and their signals are the empty
\* defaults; a request whose fingerprint is cached returns the stored
\* response with cached true and calls no extractor; a request answered on
\* a miss has run each extractor task (run_ocr, run_caption, run_clip)
\* exactly once, and no request runs one twice.
C13_DegradedMemoized ==
    [][\A r \in Reqs :
          /\ (pc[r] = "merge" /\ pc'[r] = "done") =>
                /\ Md5(req[r].content) \in Keys(cache')
                /\ DictGet(cache', Md5(req[r].content)) = out'[r].body
          /\ (pc[r] = "read" /\ pc'[r] \notin {"read", "cancelled"} /\ Md5(req[r].content) \in Keys(cache)) =>
                /\ pc'[r] = "done"
                /\ out'[r].body = [DictGet(cache, Md5(req[r].content)) EXCEPT !.cached = TRUE]
                /\ invoked'[r] = NoCalls
          /\ invoked'[r].ocr <= 1 /\ invoked'[r].caption <= 1 /\ invoked'[r].clip <= 1
          /\ (pc'[r] = "done" /\ hit_first'[r] = NoOut) => invoked'[r] = OnceEach
          /\ (pc'[r] = "done" /\ hit_first'[r] # NoOut) => invoked'[r] = NoCalls
      ]_vars

\* all three extractors failed in one request, which called each once; its
\* response of fallbacks is cached, and a second request with the same bytes
\* got it with cached true and called none
C13_Witness ==
    \E r, q \in Reqs :
        /\ Miss(r) /\ Hit(q)
        /\ req[r].content = req[q].content
        /\ req[r].ocr.result.raised /\ req[r].caption.result.raised /\ req[r].clip.result.raised
        /\ invoked[r] = OnceEach /\ invoked[q] = NoCalls
        /\ out[r].body.filename = S_image /\ out[r].body.alt_text = S_Image
        /\ out[q].body = [out[r].body EXCEPT !.cached = TRUE]
        /\ Md5(req[q].content) \in Keys(cache)

====
